---- MODULE Spec2Model ----
(***************************************************************************)
(* Model of LdapClient (plugins/catalog-backend-module-ldap/src/ldap/      *)
(* client.ts): the buffered search, the streaming search with its          *)
(* page-level backpressure, and the memoized vendor detection.             *)
(*                                                                         *)
(* The ldapjs response emitter `res` is the environment.  It emits         *)
(* searchEntry / searchReference / page / error / end.  A page event that  *)
(* carries a continuation callback pauses the emitter until the callback   *)
(* is invoked; a page event without a callback is the last page and is     *)
(* followed only by end.  Promise reactions (then / catch / finally) are   *)
(* separate steps, since they run asynchronously after the handler that    *)
(* registered them.  The logger is kept as one flag per message: a second  *)
(* referral, 'error' event or timer tick repeats the step of the first.    *)
(***************************************************************************)
EXTENDS Integers, Sequences, FiniteSets, TLC

\* ---- bounds of the model ------------------------------------------------
MaxEntries == 3      \* entries the server emits during one search call
MaxPages == 2        \* page events that carry a continuation callback
MaxRootEntries == 2  \* entries a root-DSE search returns
MaxLookups == 3      \* root-DSE lookups started on one session
MaxCallers == 4      \* getVendor calls made on one session

\* terminal status codes of the end response; 0 is LDAP success
StatusCodes == {0, 1, 2}

VARIABLES
    \* ---- searchStreaming (client.ts 169-233) ----
    sOutcome,        \* promise of the call: "idle" | "pending" | "succeeded" | "failed"
    sError,          \* the Error it was rejected with
    sRes,            \* response emitter: "none" | "open" | "paused" | "final" | "ended"
    sPage,           \* number of the page the emitter is delivering
    sEnd,            \* <<r>> once the end handler has received the terminal response r
    awaitList,       \* let awaitList (indices into transforms)
    transformError,  \* let transformError
    transforms,      \* per emitted entry: [page, st] ; st is the state of f(entry)
    alls,            \* the Promise.all(awaitList) chains created by page / end handlers
    cbCalled,        \* pages whose continuation callback cb() has been invoked
    sUncaught,       \* handlers out of which an exception escaped
    sReferralLogged,      \* TRUE once 'Received unsupported search referral' has been logged
    sErrorRaised          \* TRUE once the emitter has raised an 'error' event

svars == <<sOutcome, sError, sRes, sPage, sEnd, awaitList, transformError,
           transforms, alls, cbCalled, sUncaught, sReferralLogged, sErrorRaised>>

VARIABLES
    \* ---- search (client.ts 107-160) ----
    bOutcome,        \* the promise `search`: "idle" | "pending" | "succeeded" | "failed"
    bError,          \* the Error it was rejected with
    bRes,            \* response emitter: "none" | "open" | "final" | "ended"
    bPage,           \* number of the page the emitter is delivering
    bEnd,            \* <<r>> once the end handler has received the terminal response r
    bEmitted,        \* the entries the server has emitted, in order
    output,          \* const output: SearchEntry[]
    logInterval,     \* TRUE while the setInterval timer is active
    bProgressLogged,          \* TRUE once 'Read n LDAP entries so far...' has been logged
    bReturn,         \* what the caller of search got: "none" | "returned" | "threw"
    bFinalized,      \* TRUE once the callback of search.finally has run
    bResult,         \* the entries returned to the caller
    bReferralLogged,      \* TRUE once 'Received unsupported search referral' has been logged
    bErrorRaised          \* TRUE once the emitter has raised an 'error' event

bvars == <<bOutcome, bError, bRes, bPage, bEnd, bEmitted, output, logInterval,
           bProgressLogged, bReturn, bFinalized, bResult, bReferralLogged, bErrorRaised>>

VARIABLES
    \* ---- getVendor (client.ts 41, 241-277) ----
    vendor,          \* this.vendor: Undefined, or the number of the lookup whose promise it holds
    lookups,         \* the root-DSE lookups started so far, in order
    callers          \* the getVendor calls made so far, in order

vvars == <<vendor, lookups, callers>>

VARIABLES
    \* ---- LdapClient.create (client.ts 43-94) ----
    cState,          \* the create call: "idle" | "binding" | "ready" | "failed"
    cBind,           \* the bind argument: <<>> when absent, else <<dn>>
    cBinds,          \* the number of client.bind exchanges issued
    cError,          \* <<>>, or the value the create promise was rejected with
    cObserver,       \* TRUE once client.on('error', ...) has been registered
    cErrorLogged     \* TRUE once 'LDAP client threw an error' has been logged

cvars == <<cState, cBind, cBinds, cError, cObserver, cErrorLogged>>

vars == <<svars, bvars, vvars, cvars>>

\* the r handed to an end handler: null, or a result with a status code
EndResponses ==
    {[null |-> TRUE, status |-> 0]} \cup {[null |-> FALSE, status |-> c] : c \in StatusCodes}

\* the Error objects the promises are rejected with, by message:
\*   "init"       errorString(err) of the search callback's err
\*   "transport"  errorString(e) of the emitter's 'error' event
\*   "null"       'Null response'
\*   "status"     `Got status ${r.status}: ${r.errorMessage}`
\*   "transform"  `Transform function threw an exception, ${stringifyError(e)}`
NoError == [kind |-> "none", status |-> 0]
InitError == [kind |-> "init", status |-> 0]
TransportError == [kind |-> "transport", status |-> 0]
NullError == [kind |-> "null", status |-> 0]
StatusError(r) == [kind |-> "status", status |-> r.status]
TransformFault == [kind |-> "transform", status |-> 0]

\* ---- helpers ------------------------------------------------------------
\* states of one transform invocation f(entry):
\*   "skipped"   f was not called for the entry
\*   "void"      f returned undefined
\*   "threw"     f threw synchronously
\*   "pending" / "fulfilled" / "rejected"   f returned a promise
Settled(st) == st \in {"void", "threw", "fulfilled", "rejected"}
Invoked(st) == st # "skipped"
Failed(st) == st \in {"threw", "rejected"}

\* a reject that replaces the outcome of a promise that is already settled
SReject_Overwrite(kind) ==
    sOutcome' = "failed" /\ sError' = kind

\* reject(...) of the streaming promise: only the first settlement counts
SReject(kind) ==
    IF sOutcome = "pending"
    THEN sOutcome' = "failed" /\ sError' = kind
    ELSE UNCHANGED <<sOutcome, sError>>

\* resolve() of the streaming promise
SResolve ==
    IF sOutcome = "pending"
    THEN sOutcome' = "succeeded" /\ UNCHANGED sError
    ELSE UNCHANGED <<sOutcome, sError>>

\* a Promise.race in place of Promise.all: the first fulfilment is enough
AllFulfilled_Race(list) ==
    list = <<>> \/ \E k \in DOMAIN list : transforms[list[k]].st \in {"void", "fulfilled"}

\* Promise.all(list) fulfils when every promise of the list has fulfilled
\* (non-promise members count as fulfilled)
AllFulfilled(list) ==
    \A k \in DOMAIN list : transforms[list[k]].st \in {"void", "fulfilled"}

\* Promise.all(list) rejects as soon as one promise of the list has rejected
AnyRejected(list) ==
    \E k \in DOMAIN list : transforms[list[k]].st = "rejected"

SInit ==
    /\ sOutcome = "idle"
    /\ sError = NoError
    /\ sRes = "none"
    /\ sPage = 1
    /\ sEnd = <<>>
    /\ awaitList = <<>>
    /\ transformError = FALSE
    /\ transforms = <<>>
    /\ alls = <<>>
    /\ cbCalled = {}
    /\ sUncaught = {}
    /\ sReferralLogged = FALSE
    /\ sErrorRaised = FALSE

\* ---- searchStreaming: the caller and the search callback -----------------

\* searchStreaming(dn, options, f): new Promise(...) runs this.client.search
SearchStreamingCall ==
    /\ UNCHANGED <<bvars, vvars, cvars>>
    /\ sOutcome = "idle"
    /\ sOutcome' = "pending"
    /\ UNCHANGED <<sError, sRes, sPage, sEnd, awaitList, transformError,
                   transforms, alls, cbCalled, sUncaught, sReferralLogged, sErrorRaised>>

\* (err, res) => {...} without err: the handlers are registered on res
SSearchCallbackOk ==
    /\ UNCHANGED <<bvars, vvars, cvars>>
    /\ sOutcome = "pending"
    /\ sRes = "none"
    /\ sRes' = "open"
    /\ awaitList' = <<>>
    /\ transformError' = FALSE
    /\ UNCHANGED <<sOutcome, sError, sPage, sEnd, transforms, alls, cbCalled,
                   sUncaught, sReferralLogged, sErrorRaised>>

\* (err, res) => {...} with err: reject, and no return, so the callback goes
\* on to res.on(...) with res undefined and a TypeError escapes from it
SSearchCallbackErr ==
    /\ UNCHANGED <<bvars, vvars, cvars>>
    /\ sOutcome = "pending"
    /\ sRes = "none"
    /\ SReject(InitError)
    /\ sUncaught' = sUncaught \cup {"searchCallback"}
    /\ UNCHANGED <<sRes, sPage, sEnd, awaitList, transformError, transforms,
                   alls, cbCalled, sReferralLogged, sErrorRaised>>

\* ---- searchStreaming: handlers of the response emitter -------------------

\* what f(entry) does when the searchEntry handler calls it
TransformKinds == {"void", "threw", "pending"}

\* res.on('searchEntry'): if (!transformError) awaitList.push(f(entry)).
\* A synchronous throw of f leaves the handler before the push.
SOnSearchEntry(kind) ==
    /\ UNCHANGED <<bvars, vvars, cvars>>
    /\ sRes = "open"
    /\ Len(transforms) < MaxEntries
    /\ IF transformError
       THEN /\ transforms' = Append(transforms, [page |-> sPage, st |-> "skipped"])
            /\ UNCHANGED <<awaitList, sUncaught>>
       ELSE /\ transforms' = Append(transforms, [page |-> sPage, st |-> kind])
            /\ IF kind = "threw"
               THEN /\ sUncaught' = sUncaught \cup {"searchEntry"}
                    /\ UNCHANGED awaitList
               ELSE /\ awaitList' = Append(awaitList, Len(transforms) + 1)
                    /\ UNCHANGED sUncaught
    /\ UNCHANGED <<sOutcome, sError, sRes, sPage, sEnd, transformError, alls,
                   cbCalled, sReferralLogged, sErrorRaised>>

\* res.on('searchReference'): logger.warn only
SOnSearchReference ==
    /\ UNCHANGED <<bvars, vvars, cvars>>
    /\ sRes \in {"open", "paused", "final"}
    /\ sReferralLogged' = TRUE
    /\ UNCHANGED <<sOutcome, sError, sRes, sPage, sEnd, awaitList,
                   transformError, transforms, alls, cbCalled, sUncaught, sErrorRaised>>

\* the promises a page handler hands to Promise.all
PageAwaited == awaitList

\* res.on('page', (_, cb)): Promise.all(awaitList).then(...).catch(...)
SOnPage(hasCb) ==
    /\ UNCHANGED <<bvars, vvars, cvars>>
    /\ sRes = "open"
    /\ hasCb => sPage <= MaxPages
    /\ alls' = Append(alls, [kind |-> "page", page |-> sPage, list |-> PageAwaited,
                             cb |-> hasCb, done |-> FALSE])
    /\ sRes' = IF hasCb THEN "paused" ELSE "final"
    /\ UNCHANGED <<sOutcome, sError, sPage, sEnd, awaitList, transformError,
                   transforms, cbCalled, sUncaught, sReferralLogged, sErrorRaised>>

\* res.on('error'): reject(new Error(errorString(e)))
SOnError ==
    /\ UNCHANGED <<bvars, vvars, cvars>>
    /\ sRes \in {"open", "paused", "final"}
    /\ sErrorRaised' = TRUE
    /\ SReject(TransportError)
    /\ UNCHANGED <<sRes, sPage, sEnd, awaitList, transformError, transforms,
                   alls, cbCalled, sUncaught, sReferralLogged>>

\* an end handler that resolves without looking at awaitList
EndAwaited_None == <<>>

\* the promises the end handler hands to Promise.all
EndAwaited == awaitList

\* res.on('end', r): a null response and a non-zero status are thrown from
\* the handler; status 0 waits for Promise.all(awaitList)
SOnEnd(r) ==
    /\ UNCHANGED <<bvars, vvars, cvars>>
    /\ sRes \in {"open", "final"}
    /\ sRes' = "ended"
    /\ sEnd' = <<r>>
    /\ IF r.null \/ r.status # 0
       THEN /\ sUncaught' = sUncaught \cup {"end"}
            /\ UNCHANGED alls
       ELSE /\ alls' = Append(alls, [kind |-> "end", page |-> sPage,
                                     list |-> EndAwaited, cb |-> FALSE,
                                     done |-> FALSE])
            /\ UNCHANGED sUncaught
    /\ UNCHANGED <<sOutcome, sError, sPage, awaitList, transformError,
                   transforms, cbCalled, sReferralLogged, sErrorRaised>>

\* ---- searchStreaming: promise reactions ----------------------------------

\* a promise returned by f settles
TransformSettle(i, ok) ==
    /\ UNCHANGED <<bvars, vvars, cvars>>
    /\ i \in DOMAIN transforms
    /\ transforms[i].st = "pending"
    /\ transforms' = [transforms EXCEPT ![i].st = IF ok THEN "fulfilled" ELSE "rejected"]
    /\ UNCHANGED <<sOutcome, sError, sRes, sPage, sEnd, awaitList, transformError,
                   alls, cbCalled, sUncaught, sReferralLogged, sErrorRaised>>

\* const transformReject = e => { transformError = true; reject(...) }
transformReject ==
    /\ transformError' = TRUE
    /\ SReject(TransformFault)

\* a page reaction that keeps the settled completions in the list
Flushed_Kept == awaitList

\* awaitList = [] in the page reaction
Flushed == <<>>

\* page: .then(() => { awaitList = []; if (cb) cb(); })
SPageThen(k) ==
    /\ UNCHANGED <<bvars, vvars, cvars>>
    /\ k \in DOMAIN alls
    /\ alls[k].kind = "page"
    /\ ~alls[k].done
    /\ AllFulfilled(alls[k].list)
    /\ alls' = [alls EXCEPT ![k].done = TRUE]
    /\ awaitList' = Flushed
    /\ IF alls[k].cb
       THEN /\ cbCalled' = cbCalled \cup {alls[k].page}
            /\ sRes' = IF sRes = "paused" THEN "open" ELSE sRes
            /\ sPage' = IF sRes = "paused" THEN sPage + 1 ELSE sPage
       ELSE UNCHANGED <<cbCalled, sRes, sPage>>
    /\ UNCHANGED <<sOutcome, sError, sEnd, transformError, transforms,
                   sUncaught, sReferralLogged, sErrorRaised>>

\* page: .catch(transformReject)
SPageCatch(k) ==
    /\ UNCHANGED <<bvars, vvars, cvars>>
    /\ k \in DOMAIN alls
    /\ alls[k].kind = "page"
    /\ ~alls[k].done
    /\ AnyRejected(alls[k].list)
    /\ alls' = [alls EXCEPT ![k].done = TRUE]
    /\ transformReject
    /\ UNCHANGED <<sRes, sPage, sEnd, awaitList, transforms, cbCalled,
                   sUncaught, sReferralLogged, sErrorRaised>>

\* end: .then(() => resolve())
SEndThen(k) ==
    /\ UNCHANGED <<bvars, vvars, cvars>>
    /\ k \in DOMAIN alls
    /\ alls[k].kind = "end"
    /\ ~alls[k].done
    /\ AllFulfilled(alls[k].list)
    /\ alls' = [alls EXCEPT ![k].done = TRUE]
    /\ SResolve
    /\ UNCHANGED <<sRes, sPage, sEnd, awaitList, transformError, transforms,
                   cbCalled, sUncaught, sReferralLogged, sErrorRaised>>

\* end: .catch(transformReject)
SEndCatch(k) ==
    /\ UNCHANGED <<bvars, vvars, cvars>>
    /\ k \in DOMAIN alls
    /\ alls[k].kind = "end"
    /\ ~alls[k].done
    /\ AnyRejected(alls[k].list)
    /\ alls' = [alls EXCEPT ![k].done = TRUE]
    /\ transformReject
    /\ UNCHANGED <<sRes, sPage, sEnd, awaitList, transforms, cbCalled,
                   sUncaught, sReferralLogged, sErrorRaised>>


SNext ==
    \/ SearchStreamingCall
    \/ SSearchCallbackOk
    \/ SSearchCallbackErr
    \/ \E kind \in TransformKinds : SOnSearchEntry(kind)
    \/ SOnSearchReference
    \/ \E hasCb \in BOOLEAN : SOnPage(hasCb)
    \/ SOnError
    \/ \E r \in EndResponses : SOnEnd(r)
    \/ \E i \in DOMAIN transforms, ok \in BOOLEAN : TransformSettle(i, ok)
    \/ \E k \in DOMAIN alls : SPageThen(k)
    \/ \E k \in DOMAIN alls : SPageCatch(k)
    \/ \E k \in DOMAIN alls : SEndThen(k)
    \/ \E k \in DOMAIN alls : SEndCatch(k)

\* ---- search: the buffered search ------------------------------------------

BInit ==
    /\ bOutcome = "idle"
    /\ bError = NoError
    /\ bRes = "none"
    /\ bPage = 1
    /\ bEnd = <<>>
    /\ bEmitted = <<>>
    /\ output = <<>>
    /\ logInterval = FALSE
    /\ bProgressLogged = FALSE
    /\ bReturn = "none"
    /\ bFinalized = FALSE
    /\ bResult = <<>>
    /\ bReferralLogged = FALSE
    /\ bErrorRaised = FALSE

\* reject(...) of the promise `search`
BReject(e) ==
    IF bOutcome = "pending"
    THEN bOutcome' = "failed" /\ bError' = e
    ELSE UNCHANGED <<bOutcome, bError>>

\* a resolve that settles the promise again after a rejection
BResolve_Overrides ==
    bOutcome' = "succeeded" /\ UNCHANGED bError

\* resolve(output) of the promise `search`
BResolve ==
    IF bOutcome = "pending"
    THEN bOutcome' = "succeeded" /\ UNCHANGED bError
    ELSE UNCHANGED <<bOutcome, bError>>

\* search(dn, options): output = [], setInterval(...), this.client.search(...)
SearchCall ==
    /\ UNCHANGED <<svars, vvars, cvars>>
    /\ bOutcome = "idle"
    /\ bOutcome' = "pending"
    /\ output' = <<>>
    /\ logInterval' = TRUE
    /\ UNCHANGED <<bError, bRes, bPage, bEnd, bEmitted, bProgressLogged, bReturn, bFinalized, bResult,
                   bReferralLogged, bErrorRaised>>

\* the setInterval callback: logger.debug only
BLogTick ==
    /\ UNCHANGED <<svars, vvars, cvars>>
    /\ logInterval
    /\ bProgressLogged' = TRUE
    /\ UNCHANGED <<bOutcome, bError, bRes, bPage, bEnd, bEmitted, output, logInterval,
                   bReturn, bFinalized, bResult, bReferralLogged, bErrorRaised>>

\* (err, res) => {...} with err: reject and return
BSearchCallbackErr ==
    /\ UNCHANGED <<svars, vvars, cvars>>
    /\ bOutcome = "pending"
    /\ bRes = "none"
    /\ BReject(InitError)
    /\ UNCHANGED <<bRes, bPage, bEnd, bEmitted, output, logInterval, bProgressLogged, bReturn, bFinalized,
                   bResult, bReferralLogged, bErrorRaised>>

\* (err, res) => {...} without err: the handlers are registered on res
BSearchCallbackOk ==
    /\ UNCHANGED <<svars, vvars, cvars>>
    /\ bOutcome = "pending"
    /\ bRes = "none"
    /\ bRes' = "open"
    /\ UNCHANGED <<bOutcome, bError, bPage, bEnd, bEmitted, output, logInterval,
                   bProgressLogged, bReturn, bFinalized, bResult, bReferralLogged, bErrorRaised>>

\* an unshift in place of the push
Push_Front(out, entry) == <<entry>> \o out

\* output.push(entry)
Push(out, entry) == Append(out, entry)

\* the k-th entry the server emits, and the page it is emitted in
NextEntry == [id |-> Len(bEmitted) + 1, page |-> bPage]

\* res.on('searchEntry')
BOnSearchEntry ==
    /\ UNCHANGED <<svars, vvars, cvars>>
    /\ bRes = "open"
    /\ Len(bEmitted) < MaxEntries
    /\ bEmitted' = Append(bEmitted, NextEntry)
    /\ output' = Push(output, NextEntry)
    /\ UNCHANGED <<bOutcome, bError, bRes, bPage, bEnd, logInterval, bProgressLogged, bReturn, bFinalized,
                   bResult, bReferralLogged, bErrorRaised>>

\* a referral handler that also stores the referral as an entry
OutputAfterReferral_Pushed == Append(output, [id |-> 0, page |-> bPage])

\* `output` after the searchReference handler
OutputAfterReferral == output

\* res.on('searchReference'): logger.warn only
BOnSearchReference ==
    /\ UNCHANGED <<svars, vvars, cvars>>
    /\ bRes \in {"open", "final"}
    /\ bReferralLogged' = TRUE
    /\ output' = OutputAfterReferral
    /\ UNCHANGED <<bOutcome, bError, bRes, bPage, bEnd, bEmitted, logInterval,
                   bProgressLogged, bReturn, bFinalized, bResult, bErrorRaised>>

\* res.on('page', (_result, cb)): if (cb) cb(), at once
BOnPage(hasCb) ==
    /\ UNCHANGED <<svars, vvars, cvars>>
    /\ bRes = "open"
    /\ hasCb => bPage <= MaxPages
    /\ bRes' = IF hasCb THEN "open" ELSE "final"
    /\ bPage' = IF hasCb THEN bPage + 1 ELSE bPage
    /\ UNCHANGED <<bOutcome, bError, bEnd, bEmitted, output, logInterval, bProgressLogged,
                   bReturn, bFinalized, bResult, bReferralLogged, bErrorRaised>>

\* res.on('error'): reject(new Error(errorString(e)))
BOnError ==
    /\ UNCHANGED <<svars, vvars, cvars>>
    /\ bRes \in {"open", "final"}
    /\ bErrorRaised' = TRUE
    /\ BReject(TransportError)
    /\ UNCHANGED <<bRes, bPage, bEnd, bEmitted, output, logInterval, bProgressLogged, bReturn, bFinalized,
                   bResult, bReferralLogged>>

\* res.on('end', r)
BOnEnd(r) ==
    /\ UNCHANGED <<svars, vvars, cvars>>
    /\ bRes \in {"open", "final"}
    /\ bRes' = "ended"
    /\ bEnd' = <<r>>
    /\ IF r.null
       THEN BReject(NullError)
       ELSE IF r.status # 0
            THEN BReject(StatusError(r))
            ELSE BResolve
    /\ UNCHANGED <<bPage, bEmitted, output, logInterval, bProgressLogged, bReturn, bFinalized,
                   bResult, bReferralLogged, bErrorRaised>>

\* a finally callback that leaves the timer as it is
TimerAfterFinally_Kept == logInterval

\* clearInterval(logInterval): the timer is no longer active
TimerAfterFinally == FALSE

\* search.finally(() => clearInterval(logInterval)): the callback runs once
\* the promise `search` has settled
BFinally ==
    /\ UNCHANGED <<svars, vvars, cvars>>
    /\ bOutcome \in {"succeeded", "failed"}
    /\ ~bFinalized
    /\ bFinalized' = TRUE
    /\ logInterval' = TimerAfterFinally
    /\ UNCHANGED <<bOutcome, bError, bRes, bPage, bEnd, bEmitted, output, bProgressLogged,
                   bReturn, bResult, bReferralLogged, bErrorRaised>>

\* return await ...: the entries, or the ForwardedError of the catch block
BReturn ==
    /\ UNCHANGED <<svars, vvars, cvars>>
    /\ bOutcome \in {"succeeded", "failed"}
    /\ bFinalized
    /\ bReturn = "none"
    /\ IF bOutcome = "succeeded"
       THEN bReturn' = "returned" /\ bResult' = output
       ELSE bReturn' = "threw" /\ UNCHANGED bResult
    /\ UNCHANGED <<bOutcome, bError, bRes, bPage, bEnd, bEmitted, output, logInterval,
                   bFinalized, bProgressLogged, bReferralLogged, bErrorRaised>>

BNext ==
    \/ SearchCall
    \/ BLogTick
    \/ BSearchCallbackErr
    \/ BSearchCallbackOk
    \/ BOnSearchEntry
    \/ BOnSearchReference
    \/ \E hasCb \in BOOLEAN : BOnPage(hasCb)
    \/ BOnError
    \/ \E r \in EndResponses : BOnEnd(r)
    \/ BFinally
    \/ BReturn

\* ---- getVendor: vendor detection and its memo ------------------------------

\* this.vendor === undefined
Undefined == 0

\* the attributes of the root DSE that getVendor looks at
VendorAttributes == {"forestFunctionality", "ipaDomainLevel", "aeRoot"}

\* a SearchEntry, by the attribute names of its raw object; ldapjs gives every
\* attribute that is present a Buffer or an array as value, which is truthy
RootEntries == {[raw |-> a] : a \in SUBSET VendorAttributes}

\* the entry lists a root-DSE search can resolve with
RootResults == UNION {[1..n -> RootEntries] : n \in 0..MaxRootEntries}

\* getRootDSE: result[0] when the search returned exactly one entry, else
\* undefined; <<>> stands for undefined, <<e>> for the entry e
getRootDSE(result) ==
    IF Len(result) = 1 THEN <<result[1]>> ELSE <<>>

\* the checks for FreeIPA and Active Directory in the other order
Classify_IpaFirst(root) ==
    IF root # <<>> /\ "ipaDomainLevel" \in root[1].raw
    THEN "FreeIpaVendor"
    ELSE IF root # <<>> /\ "forestFunctionality" \in root[1].raw
         THEN "ActiveDirectoryVendor"
         ELSE IF root # <<>> /\ "aeRoot" \in root[1].raw
              THEN "AEDirVendor"
              ELSE "DefaultLdapVendor"

\* the .then(root => ...) of getVendor
Classify(root) ==
    IF root # <<>> /\ "forestFunctionality" \in root[1].raw
    THEN "ActiveDirectoryVendor"
    ELSE IF root # <<>> /\ "ipaDomainLevel" \in root[1].raw
         THEN "FreeIpaVendor"
         ELSE IF root # <<>> /\ "aeRoot" \in root[1].raw
              THEN "AEDirVendor"
              ELSE "DefaultLdapVendor"

VInit ==
    /\ vendor = Undefined
    /\ lookups = <<>>
    /\ callers = <<>>

\* a memo that is honoured only once its lookup has resolved
MemoHit_Resolved ==
    vendor # Undefined /\ lookups[vendor].promise = "fulfilled"

\* if (this.vendor)
MemoHit == vendor # Undefined

\* getVendor(): return the memo, or start a lookup and memoize its promise.
\* The root-DSE search is issued synchronously, before the assignment.
GetVendor ==
    /\ UNCHANGED <<svars, bvars, cvars>>
    /\ Len(callers) < MaxCallers
    /\ IF MemoHit
       THEN /\ callers' = Append(callers, [got |-> vendor, seen |-> "waiting"])
            /\ UNCHANGED <<vendor, lookups>>
       ELSE /\ Len(lookups) < MaxLookups
            /\ lookups' = Append(lookups, [search |-> "pending", result |-> <<>>,
                                           promise |-> "pending", value |-> "none"])
            /\ vendor' = Len(lookups) + 1
            /\ callers' = Append(callers, [got |-> Len(lookups) + 1, seen |-> "waiting"])

\* the root-DSE search of lookup l returns `result`; getRootDSE and the
\* .then handler turn it into the vendor
VLookupResolve(l) ==
    /\ UNCHANGED <<svars, bvars, cvars>>
    /\ l \in DOMAIN lookups
    /\ lookups[l].search = "pending"
    /\ \E result \in RootResults :
          lookups' = [lookups EXCEPT ![l] = [search |-> "resolved", result |-> result,
                                            promise |-> "fulfilled",
                                            value |-> Classify(getRootDSE(result))]]
    /\ UNCHANGED <<vendor, callers>>

\* the root-DSE search of lookup l fails
VSearchReject(l) ==
    /\ UNCHANGED <<svars, bvars, cvars>>
    /\ l \in DOMAIN lookups
    /\ lookups[l].search = "pending"
    /\ lookups' = [lookups EXCEPT ![l].search = "rejected"]
    /\ UNCHANGED <<vendor, callers>>

\* a .catch handler that rethrows without the reset
MemoAfterCatch_Keep(l) == vendor

\* what the .catch handler of lookup l leaves in this.vendor
MemoAfterCatch(l) == Undefined

\* .catch(err => { this.vendor = undefined; throw err; })
VCatch(l) ==
    /\ UNCHANGED <<svars, bvars, cvars>>
    /\ l \in DOMAIN lookups
    /\ lookups[l].search = "rejected"
    /\ lookups[l].promise = "pending"
    /\ vendor' = MemoAfterCatch(l)
    /\ lookups' = [lookups EXCEPT ![l].promise = "rejected"]
    /\ UNCHANGED callers

\* the promise a caller got from getVendor has settled: the caller resumes
VDeliver(c) ==
    /\ UNCHANGED <<svars, bvars, cvars>>
    /\ c \in DOMAIN callers
    /\ callers[c].seen = "waiting"
    /\ lookups[callers[c].got].promise # "pending"
    /\ callers' = [callers EXCEPT ![c].seen =
                      IF lookups[callers[c].got].promise = "fulfilled"
                      THEN lookups[callers[c].got].value
                      ELSE "failed"]
    /\ UNCHANGED <<vendor, lookups>>

VNext ==
    \/ GetVendor
    \/ \E l \in DOMAIN lookups : VLookupResolve(l)
    \/ \E l \in DOMAIN lookups : VSearchReject(l)
    \/ \E l \in DOMAIN lookups : VCatch(l)
    \/ \E c \in DOMAIN callers : VDeliver(c)

\* ---- LdapClient.create: connection, error observer and bind ---------------

\* the distinguished names a caller may bind with
BindDNs == {"cn=reader", "cn=admin"}

\* the errors a server answers a bind with
BindFaults == {"InvalidCredentials", "Unavailable"}

CInit ==
    /\ cState = "idle"
    /\ cBind = <<>>
    /\ cBinds = 0
    /\ cError = <<>>
    /\ cObserver = FALSE
    /\ cErrorLogged = FALSE

\* a rejection text that leaves out the distinguished name
BindRejection_NoDn(dn, err) == [dn |-> "", diag |-> err]

\* `LDAP bind failed for ${dn}, ${errorString(err)}`
BindRejection(dn, err) == [dn |-> dn, diag |-> err]

\* create(logger, target, bind?, tls?): createClient, client.on('error'),
\* then either the session at once or client.bind(dn, secret, ...)
CreateCall(bind) ==
    /\ UNCHANGED <<svars, bvars, vvars>>
    /\ cState = "idle"
    /\ cBind' = bind
    /\ cObserver' = TRUE
    /\ IF bind = <<>>
       THEN cState' = "ready" /\ UNCHANGED cBinds
       ELSE cState' = "binding" /\ cBinds' = cBinds + 1
    /\ UNCHANGED <<cError, cErrorLogged>>

\* err => {...} of client.bind without err: resolve(new LdapClient(...))
BindCallbackOk ==
    /\ UNCHANGED <<svars, bvars, vvars>>
    /\ cState = "binding"
    /\ cState' = "ready"
    /\ UNCHANGED <<cBind, cBinds, cError, cObserver, cErrorLogged>>

\* err => {...} of client.bind with err: reject(`LDAP bind failed ...`)
BindCallbackErr(err) ==
    /\ UNCHANGED <<svars, bvars, vvars>>
    /\ cState = "binding"
    /\ cState' = "failed"
    /\ cError' = <<BindRejection(cBind[1], err)>>
    /\ UNCHANGED <<cBind, cBinds, cObserver, cErrorLogged>>

\* an observer that also drops the vendor memo
ClientError_Fatal ==
    /\ cObserver
    /\ cErrorLogged' = TRUE
    /\ vendor' = Undefined
    /\ UNCHANGED <<svars, bvars, lookups, callers, cState, cBind, cBinds, cError, cObserver>>

\* client.on('error', err => logger.warn(...)): the catch-all observer
ClientError ==
    /\ UNCHANGED <<svars, bvars, vvars>>
    /\ cObserver
    /\ cErrorLogged' = TRUE
    /\ UNCHANGED <<cState, cBind, cBinds, cError, cObserver>>

CNext ==
    \/ \E bind \in {<<>>} \cup {<<dn>> : dn \in BindDNs} : CreateCall(bind)
    \/ BindCallbackOk
    \/ \E err \in BindFaults : BindCallbackErr(err)
    \/ ClientError

Init == SInit /\ BInit /\ VInit /\ CInit

\* one searchStreaming call on the session
SpecStreaming == Init /\ [][SNext]_vars

\* one search call on the session
SpecSearch == Init /\ [][BNext]_vars

\* getVendor calls on the session
SpecVendor == Init /\ [][VNext]_vars

\* The three operations share no state but the connection and the logger:
\* awaitList, transformError and output are locals of one call, and
\* this.vendor is touched by getVendor alone.
Next == SNext \/ BNext \/ VNext \/ CNext

Spec == Init /\ [][Next]_vars

\* a session on which the caller runs one search, in either mode
EitherNext ==
    \/ bOutcome = "idle" /\ SNext
    \/ sOutcome = "idle" /\ BNext

SpecEither == Init /\ [][EitherNext]_vars

\* create, then one buffered search on the session that create handed out
CreateNext ==
    \/ CNext
    \/ cState = "ready" /\ BNext

SpecCreate == Init /\ [][CreateNext]_vars

\* a session made without credentials, on which the caller runs one search,
\* in either mode, or getVendor calls, while the connection raises errors
SessionNext ==
    \/ CreateCall(<<>>)
    \/ ClientError
    \/ cState = "ready" /\ vendor = Undefined /\ lookups = <<>> /\ EitherNext
    \/ cState = "ready" /\ sOutcome = "idle" /\ bOutcome = "idle" /\ VNext

SpecSession == Init /\ [][SessionNext]_vars

\* ---- properties of searchStreaming ----------------------------------------

TransformsOfPage(n) == {i \in DOMAIN transforms : transforms[i].page = n}

\* the end handler has received a result with status 0
EndedWithSuccess == sEnd # <<>> /\ ~sEnd[1].null /\ sEnd[1].status = 0

\* the end handler has received a result with a status other than 0
EndedWithFailureStatus == sEnd # <<>> /\ ~sEnd[1].null /\ sEnd[1].status # 0

BEndedWithFailureStatus == bEnd # <<>> /\ ~bEnd[1].null /\ bEnd[1].status # 0

\* C1: the continuation cb of page n is invoked only when every transform
\* invocation issued for an entry of page n has settled.
C1_NextPageAfterSettled ==
    \A n \in cbCalled : \A i \in TransformsOfPage(n) :
        Invoked(transforms[i].st) => Settled(transforms[i].st)

\* C1 witness: the continuations of two pages have been invoked, each page
\* with a transform promise that fulfilled.
C1_Witness ==
    /\ {1, 2} \subseteq cbCalled
    /\ \E i \in TransformsOfPage(1) : transforms[i].st = "fulfilled"
    /\ \E j \in TransformsOfPage(2) : transforms[j].st = "fulfilled"

\* C2: once a transform invocation has failed on an entry of page n, no
\* entry of a later page is handed to the transform.
C2_NoEntryPastFailure ==
    \A i, j \in DOMAIN transforms :
        (Failed(transforms[i].st) /\ transforms[j].page > transforms[i].page)
            => ~Invoked(transforms[j].st)

\* C3: a call that has settled after a transform invocation failed, thrown or
\* rejected, has failed, and with the transform error (no transport error
\* having been raised on the stream).
C3_TransformFailureFailsCall ==
    (/\ \E i \in DOMAIN transforms : Failed(transforms[i].st)
     /\ sOutcome \in {"succeeded", "failed"}
     /\ ~sErrorRaised)
        => (sOutcome = "failed" /\ sError = TransformFault)

\* C4: an end response with a status other than 0 fails the call, with an
\* error embedding that status when the call was still pending, in the
\* streaming search and in the buffered search.
C4_FailureStatusFailsCall ==
    /\ EndedWithFailureStatus =>
          /\ sOutcome = "failed"
          /\ (~sErrorRaised /\ ~transformError) => sError = StatusError(sEnd[1])
    /\ BEndedWithFailureStatus =>
          /\ bOutcome = "failed"
          /\ ~bErrorRaised => bError = StatusError(bEnd[1])

\* C5: searchStreaming has succeeded only if the server ended the results
\* with success and every transform invocation of the last page has settled.
C5_SuccessAfterLastPageSettled ==
    sOutcome = "succeeded" =>
        /\ EndedWithSuccess
        /\ \A i \in TransformsOfPage(sPage) :
              Invoked(transforms[i].st) => Settled(transforms[i].st)

\* C5 witness: the call succeeded after a last page whose page event had no
\* continuation and whose entries were transformed by promises.
C5_Witness ==
    /\ sOutcome = "succeeded"
    /\ sPage > 1
    /\ \E k \in DOMAIN alls : alls[k].kind = "page" /\ ~alls[k].cb /\ alls[k].list # <<>>
    /\ \E i \in TransformsOfPage(sPage) : transforms[i].st = "fulfilled"

\* ---- properties of search --------------------------------------------------

\* C6: a search that returned has returned exactly the entries the server
\* emitted, each once and in the order of emission.
C6_BufferedReturnsEmitted ==
    bReturn = "returned" => bResult = bEmitted

\* C6 witness: a search returned entries that the server emitted in
\* different pages.
C6_Witness ==
    /\ bReturn = "returned"
    /\ Len(bResult) >= 2
    /\ \E i, j \in DOMAIN bResult : bResult[i].page # bResult[j].page

\* C7: a step that handles a referral changes nothing but the log: not the
\* entries, the transform invocations or the in-flight set, not the outcome
\* of the call, not what the emitter and the pending reactions do next.
C7_ReferralOnlyLogged ==
    [][/\ sReferralLogged' # sReferralLogged =>
            UNCHANGED <<sOutcome, sError, sRes, sPage, sEnd, awaitList,
                        transformError, transforms, alls, cbCalled, sUncaught,
                        sErrorRaised, bvars>>
       /\ bReferralLogged' # bReferralLogged =>
            UNCHANGED <<bOutcome, bError, bRes, bPage, bEnd, bEmitted, output,
                        logInterval, bProgressLogged, bReturn, bFinalized, bResult, bErrorRaised, svars>>]_vars

\* C7 witness: a call during which a referral was logged has succeeded, with
\* entries.
C7_Witness ==
    \/ sReferralLogged /\ sOutcome = "succeeded" /\ transforms # <<>>
    \/ bReferralLogged /\ bReturn = "returned" /\ bResult # <<>>

\* ---- properties of getVendor -----------------------------------------------

\* lookups whose promise has not settled, and lookups that succeeded
InFlight == {l \in DOMAIN lookups : lookups[l].promise = "pending"}
Succeeded == {l \in DOMAIN lookups : lookups[l].promise = "fulfilled"}

\* the step is a getVendor call
IsGetVendorStep == Len(callers') > Len(callers)
\* the lookup whose promise that call returned
GotByNewCaller == callers'[Len(callers')].got
\* the step issues a root-DSE search
IssuesSearch == Len(lookups') > Len(lookups)

\* the classification C8 states for a search result
VendorOfResult(result) ==
    IF Len(result) # 1 THEN "DefaultLdapVendor"
    ELSE LET raw == result[1].raw
         IN  CASE "forestFunctionality" \in raw -> "ActiveDirectoryVendor"
               [] "forestFunctionality" \notin raw /\ "ipaDomainLevel" \in raw -> "FreeIpaVendor"
               [] {"forestFunctionality", "ipaDomainLevel"} \cap raw = {} /\ "aeRoot" \in raw
                    -> "AEDirVendor"
               [] OTHER -> "DefaultLdapVendor"

C9_Inv ==
    /\ Cardinality(InFlight) <= 1
    /\ \A l \in Succeeded : vendor = l
    /\ \A c \in DOMAIN callers : \A l \in Succeeded :
          callers[c].seen \notin {"waiting", "failed"} => callers[c].seen = lookups[l].value

C9_Step ==
    /\ IssuesSearch => (InFlight = {} /\ Succeeded = {})
    /\ (IsGetVendorStep /\ InFlight # {}) => (GotByNewCaller \in InFlight /\ ~IssuesSearch)
    /\ (IsGetVendorStep /\ Succeeded # {}) => (GotByNewCaller \in Succeeded /\ ~IssuesSearch)

\* C9: a root-DSE search is issued only when no lookup is in flight and none
\* has succeeded; at most one lookup is in flight; a caller that arrives
\* while a lookup is in flight gets that lookup's promise; after the first
\* success every call gets that lookup and every delivered vendor is its.
C9_SingleFlight == [](C9_Inv) /\ [][C9_Step]_vars

\* C9 witness: three calls shared one lookup and all received its vendor.
C9_Witness ==
    /\ Len(lookups) = 1
    /\ Len(callers) >= 3
    /\ \A c \in DOMAIN callers : callers[c].seen = lookups[1].value
    /\ lookups[1].promise = "fulfilled"

\* a caller has been handed the failure of the latest lookup
LatestFailureDelivered ==
    \E c \in DOMAIN callers :
        callers[c].seen = "failed" /\ callers[c].got = Len(lookups)

C10_Inv ==
    \A l \in DOMAIN lookups : lookups[l].promise = "rejected" => vendor # l

C10_Step ==
    /\ \A l \in DOMAIN lookups :
          (lookups[l].promise = "pending" /\ lookups'[l].promise = "rejected")
              => (vendor = l /\ vendor' = Undefined)
    /\ IsGetVendorStep => lookups'[GotByNewCaller].promise # "rejected"
    /\ (IsGetVendorStep /\ LatestFailureDelivered) =>
          (IssuesSearch /\ GotByNewCaller = Len(lookups'))

\* C10: a failed lookup leaves the memo empty, and the reset removes only the
\* failed lookup's own promise; a getVendor call never returns the promise of
\* a failed lookup, and a call made after the failure was delivered issues a
\* fresh root-DSE search.
C10_FailureResetsMemo == [](C10_Inv) /\ [][C10_Step]_vars

\* C10 witness: the first lookup failed and its failure was delivered; a
\* later call started a second lookup, which delivered a vendor.
C10_Witness ==
    /\ Len(lookups) >= 2
    /\ lookups[1].promise = "rejected"
    /\ \E c \in DOMAIN callers : callers[c].got = 1 /\ callers[c].seen = "failed"
    /\ \E c \in DOMAIN callers :
          callers[c].got = 2 /\ callers[c].seen \notin {"waiting", "failed"}

\* ---- properties of both search modes: faults -------------------------------

\* C11: once the response stream has raised a transport error the call is
\* failed, in both modes, and remains so whatever arrives afterwards; a
\* buffered search never returns entries then.
C11_TransportErrorFailsCall ==
    /\ sErrorRaised => sOutcome = "failed"
    /\ bErrorRaised => (bOutcome = "failed" /\ bReturn # "returned")

\* C11 witness: the stream raised an error while the call was pending, the
\* end response then arrived with status 0, and the call is failed with the
\* transport error.
C11_Witness ==
    \/ sErrorRaised /\ sError = TransportError /\ EndedWithSuccess
    \/ /\ bErrorRaised /\ bError = TransportError /\ bReturn = "threw"
       /\ bEnd # <<>> /\ ~bEnd[1].null /\ bEnd[1].status = 0

\* C12: an end notification with a null response fails the call, with the
\* null-response error when the call was still pending, in both modes.
C12_NullResponseFailsCall ==
    /\ (sEnd # <<>> /\ sEnd[1].null) =>
          /\ sOutcome = "failed"
          /\ (~sErrorRaised /\ ~transformError) => sError = NullError
    /\ (bEnd # <<>> /\ bEnd[1].null) =>
          /\ bOutcome = "failed"
          /\ ~bErrorRaised => bError = NullError

\* C14: no exception escapes from the search callback or from the end
\* handler, the handlers that deal with faults of the server and the network.
C14_NoFaultEscapesHandler ==
    sUncaught \cap {"searchCallback", "end"} = {}

\* ---- properties of searchStreaming: transform failures ---------------------

\* some transform invocation issued for an entry of the current page has failed
FailedInCurrentPage ==
    \E i \in TransformsOfPage(sPage) : Failed(transforms[i].st)

\* C15: an entry that arrives when a transform invocation of its page has
\* already failed is not handed to the transform.
C15_NoTransformAfterFailure ==
    [][(Len(transforms') > Len(transforms) /\ FailedInCurrentPage)
          => ~Invoked(transforms'[Len(transforms')].st)]_vars

\* C16: a searchStreaming call settles at most once: no step changes the
\* outcome or the error of a call that has succeeded or failed.
C16_SettlesOnce ==
    [][(sOutcome \in {"succeeded", "failed"})
          => (sOutcome' = sOutcome /\ sError' = sError)]_vars

\* C16 witness: the call failed with the transform error, and a transport
\* error and a second failure report of the same page came afterwards.
C16_Witness ==
    /\ sOutcome = "failed" /\ sError = TransformFault /\ sErrorRaised
    /\ \E j, k \in DOMAIN alls :
          /\ alls[j].kind = "page" /\ alls[k].kind = "end"
          /\ alls[j].page = alls[k].page
          /\ alls[j].done /\ alls[k].done
          /\ AnyRejected(alls[j].list) /\ AnyRejected(alls[k].list)

\* the page or end notification of page n has been delivered and every
\* reaction to the completions it collected has run
NotifiedAndQuiet(n) ==
    /\ \/ \E k \in DOMAIN alls : alls[k].page = n
       \/ (sRes = "ended" /\ sPage = n)
    /\ \A k \in DOMAIN alls :
          (~alls[k].done) => (~AllFulfilled(alls[k].list) /\ ~AnyRejected(alls[k].list))

\* a tracked transform completion of page n has rejected
RejectedInPage(n) ==
    \E j \in DOMAIN awaitList :
        transforms[awaitList[j]].page = n /\ transforms[awaitList[j]].st = "rejected"

\* C17: when a tracked transform completion of the current page has rejected,
\* that page's page or end notification has been delivered and no reaction is
\* left to run, the call has failed, whatever the other completions do.
C17_FailsAfterRejection ==
    (RejectedInPage(sPage) /\ NotifiedAndQuiet(sPage)) => sOutcome = "failed"

\* every tracked completion belongs to an entry of the current page
C19_Inv ==
    /\ \A j \in DOMAIN awaitList : transforms[awaitList[j]].page = sPage
    /\ Len(awaitList) <= Cardinality(TransformsOfPage(sPage))

\* the step that requests the next page leaves the list empty, and is taken
\* only when every completion of the list has settled
C19_Step ==
    cbCalled' # cbCalled =>
        /\ awaitList' = <<>>
        /\ \A j \in DOMAIN awaitList : Settled(transforms[awaitList[j]].st)

\* C19: the list of tracked transform completions never holds completions of
\* more than one page: it is emptied once the page's completions have settled
\* and before the next page is requested.
C19_OnePageInFlight == []C19_Inv /\ [][C19_Step]_vars

\* C19 witness: the first page had tracked completions, the second page was
\* requested, and the list holds a completion of the second page only.
C19_Witness ==
    /\ sPage = 2 /\ 1 \in cbCalled
    /\ \E i \in TransformsOfPage(1) : transforms[i].st = "fulfilled"
    /\ Len(awaitList) = 1

\* ---- properties of search: the progress timer ------------------------------

\* C20: the progress timer of a buffered search is active only while the call
\* is pending: it is inactive before the call, and cleared whenever the call
\* has returned its entries or has thrown.
C20_TimerOnlyWhilePending ==
    /\ bReturn # "none" => ~logInterval
    /\ logInterval => bOutcome # "idle"

\* C20 witness: the call threw after a timer tick, and the timer is cleared;
\* or it returned entries after a timer tick, and the timer is cleared.
C20_Witness ==
    /\ bProgressLogged /\ ~logInterval
    /\ \/ bReturn = "threw" /\ bError # NoError
       \/ bReturn = "returned" /\ bResult # <<>>

\* ---- properties of LdapClient.create ---------------------------------------

\* a session exists only after the one bind, if any, has succeeded; a failed
\* construction carries the attempted DN and the server's error
C13_Inv ==
    /\ cBinds <= 1
    /\ cState = "binding" => (cBind # <<>> /\ cBinds = 1)
    /\ cState = "ready" =>
          (cError = <<>> /\ cBinds = (IF cBind = <<>> THEN 0 ELSE 1))
    /\ cState = "failed" =>
          /\ cBind # <<>> /\ cBinds = 1
          /\ \E err \in BindFaults : cError = <<[dn |-> cBind[1], diag |-> err]>>
    /\ bOutcome # "idle" => cState = "ready"

\* a session is handed out by create itself when there are no credentials,
\* and otherwise by the bind callback; the result of create is final
C13_Step ==
    /\ (cState # "ready" /\ cState' = "ready") =>
          \/ cState = "idle" /\ cBind' = <<>> /\ cBinds' = 0
          \/ cState = "binding" /\ cBinds' = 1
    /\ cState \in {"ready", "failed"} => UNCHANGED <<cState, cBind, cBinds, cError>>

\* C13: with credentials create issues exactly one bind and hands out the
\* session only after it succeeded; a failed bind fails create with the DN
\* and the server's error and no session; without credentials the session is
\* handed out without any bind.
C13_CreateBindsOnce == []C13_Inv /\ [][C13_Step]_vars

\* C13 witness: create with credentials failed: one bind was issued, the
\* rejection names the DN and the server's error, no search was ever run.
C13_Witness ==
    /\ cState = "failed" /\ cBinds = 1 /\ cBind = <<"cn=admin">>
    /\ cError = <<[dn |-> "cn=admin", diag |-> "InvalidCredentials"]>>
    /\ cErrorLogged

\* C13 second case: a session made without credentials and without any bind
\* has returned entries.
C13_AnonymousSession ==
    cState = "ready" /\ cBind = <<>> /\ cBinds = 0 /\ bReturn = "returned"

\* ---- properties of the error observer --------------------------------------

\* the step in which the observer logs an unsolicited error of the connection
\* changes nothing of the searches, of the vendor lookups or of the session
C18_Step ==
    (~cErrorLogged /\ cErrorLogged') =>
        UNCHANGED <<svars, bvars, vvars, cState, cBind, cBinds, cError, cObserver>>

\* C18: an unsolicited error of the connection is only logged: the outcome
\* and the entries of every search, the tracked transform completions and the
\* vendor memo are as they were before it.
C18_ObserverOnlyLogs == [][C18_Step]_vars

\* C18 witness: the observer has logged an error and a streaming call is
\* still pending with tracked completions of which one has not settled.
C18_Witness ==
    /\ cErrorLogged /\ cState = "ready"
    /\ sOutcome = "pending" /\ awaitList # <<>>
    /\ \E j \in DOMAIN awaitList : transforms[awaitList[j]].st = "pending"

\* C18 second case: the observer has logged an error and the vendor memo
\* still holds the promise of a lookup whose search is pending.
C18_MemoKept ==
    /\ cErrorLogged
    /\ vendor # Undefined /\ lookups[vendor].search = "pending"
====
